---- MODULE Spec2Model ----
(***************************************************************************)
(* A model of the recursive, cache-aware web crawler of cbs_utils          *)
(* (src/src/cbs_utils/web_scraping.py): the link classifier HRefCheck, the *)
(* crawler UrlSearchStrings and the disk cache decorator cache_to_disk.    *)
(*                                                                         *)
(* Strings of the program are modelled by what the code reads from them:   *)
(*   - a host is its name; tldextract's (subdomain, domain, suffix) are    *)
(*     tables over the host names;                                         *)
(*   - a URL is a record [host, path], path the sequence of its segments   *)
(*     (the scheme is fixed for one crawl, trailing slashes are dropped);  *)
(*   - an href or frame src is a record [form, host, path], form naming    *)
(*     the textual shape the classifier's rules test.                      *)
(***************************************************************************)
EXTENDS Integers, Sequences, FiniteSets, TLC

VARIABLES
    \* ---- UrlSearchStrings (one crawl) ----
    cfg,                \* constructor arguments and the site being crawled
    matches,            \* self.matches: key -> list of matches
    url_per_match,      \* self.url_per_match: key -> match -> url (NoUrl = absent)
    external_hrefs,     \* self.external_hrefs
    followed_urls,      \* self.followed_urls
    frame_counter,      \* self.frame_counter
    href_counter,       \* self.href_counter
    branch_count,       \* self.branch_count (collections.Counter)
    href_df,            \* self.href_df: NoTable or the list of rows
    stop_flag,          \* self.stop_with_scanning_this_url
    exists,             \* self.exists
    stack,              \* the Python call stack of the crawl, innermost call first
    visited,            \* log of the pages make_soup fetched: [url, via]
    raised,             \* the exception that ended the crawl, "" if none
    \* ---- cache_to_disk ----
    disk,               \* the cache directory: file name -> file content
    last,               \* the most recent wrapper call: its arguments and outcome
    got,                \* the most recent get_page_from_url call through the cache
    \* ---- RequestUrl and the constructor of UrlSearchStrings ----
    target,             \* the server: (schema, verify) -> what a HEAD request gives
    req,                \* the RequestUrl object and the probes it has issued
    ctor,               \* UrlSearchStrings.__init__: arguments, position, outcome
    \* ---- string_measures ----
    measure,            \* the two strings and the distances computed for them
    \* ---- HRefCheck on its own ----
    hrefcheck,          \* the Counter and the most recent classification of an href
    \* ---- two processes on one cache entry ----
    race                \* the cache file and the position of each process

crawlVars == <<cfg, matches, url_per_match, external_hrefs, followed_urls,
               frame_counter, href_counter, branch_count, href_df, stop_flag,
               exists, stack, visited, raised>>
cacheVars == <<disk, last>>
getVars == <<got>>
resolveVars == <<target, req, ctor>>
measureVars == <<measure>>
restVars == <<hrefcheck, race>>
nonCrawlVars == <<cacheVars, getVars, resolveVars, measureVars, restVars>>
vars == <<crawlVars, nonCrawlVars>>

----------------------------------------------------------------------------
(* Bounds of the model *)

MaxDepthCfg == 2        \* max_depth argument ranges over 0..MaxDepthCfg
MaxBranchCfg == 2       \* max_branch_count argument ranges over 1..MaxBranchCfg
MaxHrefsCfg == 3        \* max_hrefs argument ranges over 0..MaxHrefsCfg
MaxFramesCfg == 2       \* max_frames argument ranges over 0..MaxFramesCfg
MaxBudget == 2          \* max_cache_dir_size ranges over None and 0..MaxBudget
MaxStrLen == 3
MaxChecks == 3          \* the strings measured have at most MaxStrLen characters

(* Program constants *)

DefaultMaxDepth == 1            \* HRefCheck.__init__(max_depth=1)
DefaultMaxBranchCount == 50     \* HRefCheck.__init__(max_branch_count=50)

\* Python's None, True and False in an attribute that holds any of them.
None == "None"
Bool(b) == IF b THEN "True" ELSE "False"
Truthy(v) == v = "True"

----------------------------------------------------------------------------
(* Hosts, URLs and hrefs *)

SeedHost == "www.example.com"
OrgHost == "www.example.org"
OtherHost == "www.other.com"
NoHost == ""

\* tldextract.extract(x).domain: the registrable label without its suffix.
TldDomain(host) ==
    CASE host = SeedHost -> "example"
      [] host = OrgHost -> "example"
      [] host = OtherHost -> "other"
      [] OTHER -> ""

\* tldextract.extract(x).registered_domain: domain + "." + suffix.
TldRegisteredDomain(host) ==
    CASE host = SeedHost -> "example.com"
      [] host = OrgHost -> "example.org"
      [] host = OtherHost -> "other.com"
      [] OTHER -> ""

\* get_clean_url: subdomain "." registered_domain, which for the hosts of the
\* model (all with subdomain www) is the host name itself.
get_clean_url(url) == url.host

Url(host, path) == [host |-> host, path |-> path]
NoUrl == [host |-> NoHost, path |-> <<"-">>]

Root(path) == [form |-> "root", host |-> NoHost, path |-> path]       \* "/a/b"
Bare(path) == [form |-> "bare", host |-> NoHost, path |-> path]       \* "a/b.html"
Abs(host, path) == [form |-> "abs", host |-> host, path |-> path]     \* "https://host/a/b"
Special == [form |-> "special", host |-> NoHost, path |-> <<>>]       \* "#"
Query == [form |-> "query", host |-> NoHost, path |-> <<"a">>]        \* "/a?page=2"
Image == [form |-> "file", host |-> NoHost, path |-> <<"logo.png">>]  \* "/logo.png"
Tel == [form |-> "colon", host |-> NoHost, path |-> <<>>]             \* "tel:0123"

HtmlSegments == {"p.html", "q.html", "r.html", "a.html", "b.html"}

\* re.search(r"\.html$", s) on a path.
EndsWithHtml(path) == Len(path) > 0 /\ path[Len(path)] \in HtmlSegments

\* urllib.parse.urljoin(base, ref): an absolute reference replaces the base,
\* a root-relative one replaces its path, any other replaces the last
\* segment of the base path.
urljoin(base, ref) ==
    CASE ref.form = "abs" -> Url(ref.host, ref.path)
      [] ref.form = "root" -> Url(base.host, ref.path)
      [] OTHER -> Url(base.host,
                      (IF Len(base.path) = 0 THEN <<>>
                       ELSE SubSeq(base.path, 1, Len(base.path) - 1)) \o ref.path)

\* is_url(href): urlparse finds both a scheme and a netloc.
is_url(href) == href.form = "abs"

----------------------------------------------------------------------------
(* HRefCheck: the link classifier *)

\* The sections of href relative to the domain (web_scraping.py:201-207):
\* the scheme is stripped from both, the base URL "host/" is removed from the
\* href, one leading and one trailing slash are dropped and the rest is split
\* at "/".
Sections(href, url) ==
    IF href.form = "abs"
    THEN IF href.host = url.host
         THEN (IF href.path = <<>> THEN <<"">> ELSE href.path)
         ELSE <<href.host>> \o href.path
    ELSE IF href.path = <<>> THEN <<"">> ELSE href.path

\* tldextract.extract(href).domain of an href: none for a root-relative
\* reference; for a bare relative one the last label of its first segment.
HrefDomain(href) ==
    CASE href.form = "abs" -> TldDomain(href.host)
      [] href.form = "bare" /\ href.path # <<>> ->
            (IF href.path[1] \in HtmlSegments THEN "html" ELSE href.path[1])
      [] OTHER -> ""

\* is_valid_href with the branch counted before the first rule.
is_valid_href_counting_first(href, url, max_depth, bc, max_branch_count) ==
    LET sections == Sections(href, url)
        first_branch == sections[1]
        bc1 == [bc EXCEPT ![first_branch] = @ + 1]
        within == HrefDomain(href) \in {"", TldDomain(url.host)}
        branch_depth == IF EndsWithHtml(sections)
                        THEN Len(sections) - 1 ELSE Len(sections)
    IN  IF href.form \in {"special", "query", "file", "colon"}
        THEN [valid |-> FALSE, branch_count |-> bc1]
        ELSE IF bc1[first_branch] > max_branch_count
             THEN [valid |-> FALSE, branch_count |-> bc1]
        ELSE IF within /\ branch_depth > max_depth
             THEN [valid |-> FALSE, branch_count |-> bc1]
        ELSE [valid |-> TRUE, branch_count |-> bc1]

\* is_valid_href with branch_count threaded through: the verdict and the
\* Counter after the call.
is_valid_href(href, url, max_depth, bc, max_branch_count) ==
    LET sections == Sections(href, url)
        first_branch == sections[1]
        bc1 == [bc EXCEPT ![first_branch] = @ + 1]
        \* "within the domain": the href has no domain or the crawl's domain
        within == HrefDomain(href) \in {"", TldDomain(url.host)}
        branch_depth == IF EndsWithHtml(sections)
                        THEN Len(sections) - 1 ELSE Len(sections)
    IN  IF href.form = "special" THEN [valid |-> FALSE, branch_count |-> bc]
        ELSE IF href.form = "query" THEN [valid |-> FALSE, branch_count |-> bc]
        ELSE IF href.form = "file" THEN [valid |-> FALSE, branch_count |-> bc]
        ELSE IF href.form = "colon" THEN [valid |-> FALSE, branch_count |-> bc]
        ELSE IF bc1[first_branch] > max_branch_count
             THEN [valid |-> FALSE, branch_count |-> bc1]
        ELSE IF within /\ branch_depth > max_depth
             THEN [valid |-> FALSE, branch_count |-> bc1]
        ELSE [valid |-> TRUE, branch_count |-> bc1]

\* HRefCheck.__init__ followed by get_full_url: the attributes of the check
\* object and the Counter after the call.  A reference that starts with "/"
\* or is no URL on its own is joined to the crawl's URL; an absolute one goes
\* through RequestUrl with the crawl's schema, which re-attaches the schema
\* to the stripped href, and is external when its tldextract domain differs
\* from that of the crawl's URL.
HRefCheck(href, url, max_depth, bc, max_branch_count) ==
    LET v == is_valid_href(href, url, max_depth, bc, max_branch_count)
        relative == href.form = "root" \/ ~is_url(href)
        full == IF relative THEN urljoin(url, href) ELSE Url(href.host, href.path)
    IN  [valid_href |-> v.valid,
         branch_count |-> v.branch_count,
         full_href_url |-> IF v.valid THEN full ELSE NoUrl,
         clean_href_url |-> IF v.valid /\ ~relative THEN get_clean_url(full) ELSE NoHost,
         relative_link |-> v.valid /\ relative,
         external_link |-> v.valid /\ ~relative
                           /\ HrefDomain(href) # TldDomain(url.host)]

----------------------------------------------------------------------------
(* The sites crawled *)

Keys == {"A", "B"}      \* the keys of search_strings

\* A page as BeautifulSoup presents it: per key the matches get_patterns
\* finds, in text-node order; the src of every <frame>; the href of every <a>.
Page(a, b, frames, links) ==
    [text |-> [k \in Keys |-> IF k = "A" THEN a ELSE b],
     frames |-> frames, links |-> links]

SeedUrl == Url(SeedHost, <<>>)      \* self.req.url

\* "deep": every page links one level deeper.
SiteDeep ==
    (SeedUrl :> Page(<<>>, <<"b0">>, <<>>,
        <<Root(<<"a">>), Root(<<"a", "b">>), Special, Root(<<"a", "p.html">>),
          Root(<<"a", "b", "p.html">>), Query>>))
    @@ (Url(SeedHost, <<"a">>) :> Page(<<"a1">>, <<>>, <<>>, <<Root(<<"a", "b">>)>>))
    @@ (Url(SeedHost, <<"a", "b">>) :> Page(<<>>, <<"b2">>, <<>>, <<Root(<<"a", "b", "a">>)>>))
    @@ (Url(SeedHost, <<"a", "p.html">>) :> Page(<<>>, <<"b0", "b3">>, <<>>, <<>>))

\* "wide": one path segment with many children.
SiteWide ==
    (SeedUrl :> Page(<<>>, <<>>, <<>>,
        <<Root(<<"a", "p.html">>), Image, Root(<<"a", "q.html">>), Tel,
          Root(<<"a", "r.html">>), Root(<<"b">>)>>))
    @@ (Url(SeedHost, <<"a", "p.html">>) :> Page(<<>>, <<"b1">>, <<>>, <<>>))
    @@ (Url(SeedHost, <<"a", "q.html">>) :> Page(<<"a1">>, <<"b1">>, <<>>, <<>>))
    @@ (Url(SeedHost, <<"a", "r.html">>) :> Page(<<>>, <<"b2">>, <<>>, <<>>))

\* "frames": a frameset seed, a frame that frames itself, a link target with
\* a frame of its own.
SiteFrames ==
    (SeedUrl :> Page(<<>>, <<"b0">>, <<Bare(<<"f", "a.html">>), Bare(<<"b.html">>)>>,
        <<Root(<<"y">>)>>))
    @@ (Url(SeedHost, <<"f", "a.html">>) :> Page(<<>>, <<"b1">>, <<Bare(<<"a.html">>)>>,
        <<Root(<<"x">>), Root(<<"y">>)>>))
    @@ (Url(SeedHost, <<"f", "b.html">>) :> Page(<<>>, <<"b2">>, <<>>, <<>>))
    @@ (Url(SeedHost, <<"b.html">>) :> Page(<<>>, <<"b3">>, <<>>, <<>>))
    @@ (Url(SeedHost, <<"x">>) :> Page(<<"a1">>, <<>>, <<Root(<<"b.html">>)>>, <<>>))
    @@ (Url(SeedHost, <<"y">>) :> Page(<<"a2">>, <<"b1">>, <<>>, <<>>))

\* "extern": links that leave the seed's site.
SiteExtern ==
    (SeedUrl :> Page(<<>>, <<>>, <<>>,
        <<Abs(OtherHost, <<"x">>), Abs(OrgHost, <<>>), Root(<<"a">>),
          Abs(OtherHost, <<"y">>), Abs(SeedHost, <<"a">>)>>))
    @@ (Url(OtherHost, <<"x">>) :> Page(<<"a9">>, <<"b9">>, <<>>, <<>>))
    @@ (Url(OrgHost, <<>>) :> Page(<<>>, <<"b1">>, <<>>, <<>>))
    @@ (Url(SeedHost, <<"a">>) :> Page(<<>>, <<"b2">>, <<>>, <<>>))

\* "rank": the links /contact, /about-us, /products and https://.../About.
SiteRank ==
    (SeedUrl :> Page(<<>>, <<"b0">>, <<>>,
        <<Abs(SeedHost, <<"contact">>), Root(<<"contact">>), Root(<<"about-us">>),
          Root(<<"products">>), Abs(SeedHost, <<"About">>)>>))
    @@ (Url(SeedHost, <<"contact">>) :> Page(<<"a1">>, <<"b1">>, <<>>, <<>>))
    @@ (Url(SeedHost, <<"about-us">>) :> Page(<<>>, <<"b2", "b2">>, <<>>, <<>>))
    @@ (Url(SeedHost, <<"products">>) :> Page(<<>>, <<"b0">>, <<>>, <<>>))

\* "stop": the seed page itself matches key A.
SiteStop ==
    (SeedUrl :> Page(<<"a0", "a1">>, <<>>, <<>>,
        <<Root(<<"a">>), Root(<<"b">>)>>))
    @@ (Url(SeedHost, <<"a">>) :> Page(<<>>, <<"b1">>, <<Root(<<"b.html">>)>>, <<>>))
    @@ (Url(SeedHost, <<"b">>) :> Page(<<"a0">>, <<"b2">>, <<>>, <<>>))
    @@ (Url(SeedHost, <<"b.html">>) :> Page(<<>>, <<>>, <<>>, <<>>))

\* "frameset": a seed page of three frames, each a page without frames; the
\* first frame is in a directory and has a link, the second is beside the
\* seed page.
SiteFrameset ==
    (SeedUrl :> Page(<<>>, <<>>,
        <<Bare(<<"f", "a.html">>), Bare(<<"b.html">>), Root(<<"x">>)>>, <<>>))
    @@ (Url(SeedHost, <<"f", "a.html">>) :> Page(<<"a1">>, <<>>, <<>>,
        <<Root(<<"x">>)>>))
    @@ (Url(SeedHost, <<"b.html">>) :> Page(<<>>, <<"b1">>, <<>>, <<>>))
    @@ (Url(SeedHost, <<"x">>) :> Page(<<"a2">>, <<"b2">>, <<>>, <<>>))

SiteNames == {"deep", "wide", "frames", "extern", "rank", "stop", "frameset"}

Site(name) ==
    CASE name = "deep" -> SiteDeep
      [] name = "wide" -> SiteWide
      [] name = "frames" -> SiteFrames
      [] name = "extern" -> SiteExtern
      [] name = "rank" -> SiteRank
      [] name = "stop" -> SiteStop
      [] name = "frameset" -> SiteFrameset

\* The first sections hrefs of the sites can have: the keys of the Counter.
Branches ==
    {"", "a", "b", "x", "y", "f", "contact", "about-us", "products", "About",
     "a.html", "b.html", SeedHost, OrgHost, OtherHost}

----------------------------------------------------------------------------
(* UrlSearchStrings.make_href_df: the HrefTable *)

NoTable == [built |-> FALSE, rows |-> <<>>]      \* self.href_df = None

\* The order of Python's string comparison on the names of the model.
HostOrder == <<SeedHost, OrgHost, OtherHost>>
SegmentOrder ==
    <<"About", "a", "a.html", "about-us", "b", "b.html", "contact", "f",
      "p.html", "products", "q.html", "r.html", "x", "y">>

IndexOf(seq, x) == CHOOSE i \in 1..Len(seq) : seq[i] = x

RECURSIVE PathLess(_, _)
PathLess(p, q) ==
    IF p = <<>> THEN q # <<>>
    ELSE IF q = <<>> THEN FALSE
    ELSE IF p[1] = q[1] THEN PathLess(Tail(p), Tail(q))
    ELSE IndexOf(SegmentOrder, p[1]) < IndexOf(SegmentOrder, q[1])

UrlLess(u, v) ==
    IF u.host = v.host THEN PathLess(u.path, v.path)
    ELSE IndexOf(HostOrder, u.host) < IndexOf(HostOrder, v.host)

\* re.search(regexp, href, re.IGNORECASE) for the keywords of the model.
SearchIgnoreCase(regexp, href) ==
    regexp = "about" /\ \E i \in 1..Len(href.path) : href.path[i] \in {"about-us", "About"}

\* The ranking of an href (web_scraping.py:692-698).
Ranking(href, sort_order_hrefs) ==
    IF \E i \in 1..Len(sort_order_hrefs) : SearchIgnoreCase(sort_order_hrefs[i], href)
    THEN 1 ELSE 0

InSeq(x, seq) == \E i \in 1..Len(seq) : seq[i] = x

\* F applied to the value of v: v is evaluated once, as Python evaluates an
\* argument before the call.
At(F(_), v) == CHOOSE r \in {F(x) : x \in {v}} : TRUE

\* The two kinds of string kept in self.external_hrefs: the clean URL of an
\* external href (make_href_df) and the full URL of an external row
\* (follow_hrefs).  No string is both.
CleanEntry(host) == [host |-> host, path |-> <<>>, clean |-> TRUE]
FullEntry(url) == [host |-> url.host, path |-> url.path, clean |-> FALSE]

\* The loop over the links of make_href_df (web_scraping.py:646-700).
\* acc = [rows, external_hrefs, branch_count].
RECURSIVE CheckLinks(_, _, _)
CheckLinks(links, acc, c) ==
    IF links = <<>> THEN acc
    ELSE
      LET href == links[1]
          rest == Tail(links)
          clean_href == IF href.form = "abs" THEN href.host ELSE NoHost
          seen == (\E i \in 1..Len(acc.rows) : acc.rows[i].href = href)
                  \/ (href.form = "abs"
                      /\ \E i \in 1..Len(acc.rows) :
                            acc.rows[i].url = Url(href.host, href.path))
          check == HRefCheck(href, SeedUrl, DefaultMaxDepth, acc.branch_count,
                             DefaultMaxBranchCount)
          row == [href |-> href, url |-> check.full_href_url,
                  external |-> check.external_link,
                  relative |-> check.relative_link,
                  ranking |-> Ranking(href, c.sort_order_hrefs),
                  clicks |-> 0]
          Rest(next) == CheckLinks(rest, next, c)
      IN  IF InSeq(CleanEntry(clean_href), acc.external_hrefs) \/ seen
          THEN Rest(acc)
          ELSE IF ~check.valid_href
          THEN At(Rest, [acc EXCEPT !.branch_count = check.branch_count])
          ELSE At(Rest,
                  [rows |-> Append(acc.rows, row),
                   external_hrefs |->
                       IF check.external_link
                          /\ ~InSeq(CleanEntry(check.clean_href_url), acc.external_hrefs)
                       THEN Append(acc.external_hrefs, CleanEntry(check.clean_href_url))
                       ELSE acc.external_hrefs,
                   branch_count |-> check.branch_count])

\* DataFrame.sort_values([URL_KEY, RELATIVE_KEY]): r sorts before s.
ByUrlRelative(r, s) ==
    UrlLess(r.url, s.url) \/ (r.url = s.url /\ ~r.relative /\ s.relative)

\* The sort on the ranking with ascending=True.
ByRankingAscending(r, s) == r.ranking < s.ranking

\* DataFrame.sort_values([RANKING_KEY], ascending=False): r sorts before s.
ByRankingDescending(r, s) == r.ranking > s.ranking

Before(key, r, s) ==
    IF key = "url_relative" THEN ByUrlRelative(r, s) ELSE ByRankingDescending(r, s)

\* A stable sort: x is put behind every row that does not sort after it.
RECURSIVE InsertRow(_, _, _)
InsertRow(key, x, sorted) ==
    IF sorted = <<>> THEN <<x>>
    ELSE IF Before(key, x, sorted[1]) THEN <<x>> \o sorted
    ELSE <<sorted[1]>> \o InsertRow(key, x, Tail(sorted))

RECURSIVE SortRows(_, _)
SortRows(key, rows) ==
    IF rows = <<>> THEN <<>>
    ELSE LET Insert(sorted) == InsertRow(key, rows[Len(rows)], sorted)
         IN  At(Insert, SortRows(key, SubSeq(rows, 1, Len(rows) - 1)))

\* DataFrame.drop_duplicates([URL_KEY]) with keep="first".
drop_duplicates_keep_first(rows) ==
    SelectSeq([i \in 1..Len(rows) |->
                  [row |-> rows[i],
                   last |-> ~\E j \in 1..(i - 1) : rows[j].url = rows[i].url]],
              LAMBDA e : e.last)

\* DataFrame.drop_duplicates([URL_KEY], keep="last").
drop_duplicates(rows) ==
    SelectSeq([i \in 1..Len(rows) |->
                  [row |-> rows[i],
                   last |-> ~\E j \in (i + 1)..Len(rows) : rows[j].url = rows[i].url]],
              LAMBDA e : e.last)

DropDuplicatesKeepLast(rows) ==
    LET kept == drop_duplicates(rows) IN [i \in 1..Len(kept) |-> kept[i].row]

\* make_href_df(links): the new href_df, external_hrefs and branch_count.
make_href_df(links, ext, bc, c) ==
    LET ByRanking(unique) == SortRows("ranking", unique)
        Unique(by_url) == At(ByRanking, DropDuplicatesKeepLast(by_url))
        Table(acc) ==
            [href_df |-> [built |-> TRUE,
                          rows |-> At(Unique, SortRows("url_relative", acc.rows))],
             external_hrefs |-> acc.external_hrefs,
             branch_count |-> acc.branch_count]
    IN  At(Table, CheckLinks(links, [rows |-> <<>>, external_hrefs |-> ext,
                                     branch_count |-> bc], c))

----------------------------------------------------------------------------
(* UrlSearchStrings: the crawl *)

AllMatches == {"a0", "a1", "a2", "a9", "b0", "b1", "b2", "b3", "b9"}

Configs ==
    [site : SiteNames,
     max_depth : 0..MaxDepthCfg,
     max_branch_count : 1..MaxBranchCfg,
     max_hrefs : 0..MaxHrefsCfg,
     max_frames : 0..MaxFramesCfg,
     stop_search_on_found_keys : {<<>>, <<"A">>},
     sort_order_hrefs : {<<>>, <<"about">>},
     store_page_to_cache : {FALSE},
     failure : {"404"}]

\* One entry of the call stack.
\*   op = "search": recursive_pattern_search(url, follow) is about to run;
\*   op = "frames": the loop of follow_frames, srcs still to do, url the
\*                  local variable url, page the page the soup came from;
\*   op = "hrefs":  the loop of follow_hrefs at row i; returned says that the
\*                  recursive call of this row has come back.
Call(op, url, page, follow, srcs, i, returned, via) ==
    [op |-> op, url |-> url, page |-> page, follow |-> follow, srcs |-> srcs,
     i |-> i, returned |-> returned, via |-> via]

SearchCall(url, follow, via) == Call("search", url, url, follow, <<>>, 0, FALSE, via)
FramesCall(url, follow, srcs) == Call("frames", url, url, follow, srcs, 0, FALSE, "")
HrefsCall(i, returned) == Call("hrefs", NoUrl, NoUrl, FALSE, <<>>, i, returned, "")

Top == stack[1]
Pop == Tail(stack)

\* The page of a URL, if the site serves one.
HasSoup(url) == url \in DOMAIN Site(cfg.site)
Soup(url) == Site(cfg.site)[url]

\* The exceptions of a GET: the transport exceptions, and others that reach
\* the catch-all clauses only.
TransportExceptions ==
    {"ConnectionError", "ReadTimeout", "TooManyRedirects", "InvalidURL",
     "ContentDecodingError", "ChunkedEncodingError", "SSLError"}
OtherExceptions == {"RetryError", "InvalidSchema", "MissingSchema"}
Exceptions == TransportExceptions \cup OtherExceptions

\* isinstance(exc, classes): requests' SSLError is a ConnectionError.
IsInstance(exc, classes) ==
    exc \in classes \/ (exc = "SSLError" /\ "ConnectionError" \in classes)

\* What a GET of a URL the site serves no page for can give.
Failures == Exceptions \cup {"404"}

\* session.get(url, ...): status 200 for a page of the site, else the
\* failure of the configuration.
session_get(url, c) == IF HasSoup(url) THEN "200" ELSE c.failure

\* get_page_from_url with every exception kept from the caller only if it
\* is one of the first except clause.
get_page_catching_listed(response, raise_exceptions) ==
    IF response \in Exceptions
    THEN IF raise_exceptions \/ ~IsInstance(response, TransportExceptions)
         THEN [how |-> "raised", exc |-> response, page |-> None]
         ELSE [how |-> "returned", exc |-> "", page |-> None]
    ELSE [how |-> "returned", exc |-> "", page |-> response]

\* get_page_from_url (web_scraping.py:1077-1097), given what the GET gives:
\* both except clauses set page = None and raise on request only.
get_page_from_url(response, raise_exceptions) ==
    IF response \in Exceptions
    THEN IF IsInstance(response, TransportExceptions)
         THEN IF raise_exceptions
              THEN [how |-> "raised", exc |-> response, page |-> None]
              ELSE [how |-> "returned", exc |-> "", page |-> None]
         ELSE IF raise_exceptions
              THEN [how |-> "raised", exc |-> response, page |-> None]
              ELSE [how |-> "returned", exc |-> "", page |-> None]
    ELSE [how |-> "returned", exc |-> "", page |-> response]

\* make_soup(url) (web_scraping.py:814-841): "soup", "none" or "raised".
make_soup(url, c) ==
    LET response == session_get(url, c)
        found(page) == IF page = None \/ page # "200"
                       THEN [how |-> "none", exc |-> ""]
                       ELSE [how |-> "soup", exc |-> ""]
    IN  IF c.store_page_to_cache
        THEN LET r == get_page_from_url(response, FALSE)
             IN  IF r.how = "raised"
                 THEN IF IsInstance(r.exc, {"ConnectionError", "ReadTimeout", "RetryError"})
                      THEN [how |-> "none", exc |-> ""]
                      ELSE [how |-> "raised", exc |-> r.exc]
                 ELSE found(r.page)
        ELSE IF response \in Exceptions
             THEN IF IsInstance(response, {"ConnectionError", "ReadTimeout", "RetryError"})
                  THEN [how |-> "none", exc |-> ""]
                  ELSE [how |-> "raised", exc |-> response]
             ELSE found(response)

\* The try around make_soup in recursive_pattern_search
\* (web_scraping.py:595-599).
TryMakeSoup(url, c) ==
    LET r == make_soup(url, c)
    IN  IF r.how = "raised" /\ IsInstance(r.exc, {"InvalidSchema", "MissingSchema"})
        THEN [how |-> "none", exc |-> ""]
        ELSE r

\* get_patterns(soup, regexp)
get_patterns(soup, key) == soup.text[key]

InitCrawl ==
    /\ cfg \in Configs
    /\ matches = [k \in Keys |-> <<>>]
    /\ url_per_match = [k \in Keys |-> [m \in AllMatches |-> NoUrl]]
    /\ external_hrefs = <<>>
    /\ followed_urls = <<>>
    /\ frame_counter = 0
    /\ href_counter = 0
    /\ branch_count = [b \in Branches |-> 0]
    /\ href_df = NoTable
    /\ stop_flag = FALSE
    /\ exists = FALSE
    /\ stack = <<SearchCall(SeedUrl, TRUE, "seed")>>
    /\ visited = <<>>
    /\ raised = ""
    /\ disk = <<>> /\ last = <<>> /\ got = <<>>
    /\ target = <<>> /\ req = <<>> /\ ctor = <<>>
    /\ measure = <<>>
    /\ hrefcheck = <<>> /\ race = <<>>

\* recursive_pattern_search with the stop flag tested after make_soup.
SearchStoppedAfterFetch ==
    /\ stack # <<>> /\ Top.op = "search"
    /\ stop_flag
    /\ stack' = Pop
    /\ visited' = Append(visited, [url |-> Top.url, via |-> Top.via, soup |-> FALSE])
    /\ UNCHANGED <<nonCrawlVars, raised, cfg, matches, url_per_match, external_hrefs, followed_urls,
                   frame_counter, href_counter, branch_count, href_df, stop_flag,
                   exists>>

\* recursive_pattern_search returns at once: the stop flag is set.
SearchStopped ==
    /\ stack # <<>> /\ Top.op = "search"
    /\ stop_flag
    /\ stack' = Pop
    /\ UNCHANGED <<nonCrawlVars, raised, cfg, matches, url_per_match, external_hrefs, followed_urls,
                   frame_counter, href_counter, branch_count, href_df, stop_flag,
                   exists, visited>>

\* recursive_pattern_search gets no soup.
SearchNoSoup ==
    /\ stack # <<>> /\ Top.op = "search"
    /\ ~stop_flag
    /\ TryMakeSoup(Top.url, cfg).how = "none"
    /\ stack' = Pop
    /\ visited' = Append(visited, [url |-> Top.url, via |-> Top.via, soup |-> FALSE])
    /\ UNCHANGED <<nonCrawlVars, raised, cfg, matches, url_per_match, external_hrefs, followed_urls,
                   frame_counter, href_counter, branch_count, href_df, stop_flag,
                   exists>>

\* make_soup raises an exception nothing catches: it ends the crawl.
SearchRaised ==
    /\ stack # <<>> /\ Top.op = "search"
    /\ ~stop_flag
    /\ TryMakeSoup(Top.url, cfg).how = "raised"
    /\ raised' = TryMakeSoup(Top.url, cfg).exc
    /\ stack' = <<>>
    /\ visited' = Append(visited, [url |-> Top.url, via |-> Top.via, soup |-> FALSE])
    /\ UNCHANGED <<nonCrawlVars, cfg, matches, url_per_match, external_hrefs, followed_urls,
                   frame_counter, href_counter, branch_count, href_df, stop_flag,
                   exists>>

\* The searches of one page with the result assigned instead of appended.
AssignMatches(m, soup) ==
    [k \in Keys |-> IF get_patterns(soup, k) # <<>> THEN get_patterns(soup, k) ELSE m[k]]

\* The matches after the searches of one page (web_scraping.py:604-614).
ExtendMatches(m, soup) == [k \in Keys |-> m[k] \o get_patterns(soup, k)]

\* url_per_match with the first URL of a match kept.
KeepFirstUrlPerMatch(upm, soup, url) ==
    [k \in Keys |-> [x \in AllMatches |->
        IF InSeq(x, get_patterns(soup, k)) /\ upm[k][x] = NoUrl THEN url ELSE upm[k][x]]]

\* url_per_match after the searches of one page (web_scraping.py:611-612).
ExtendUrlPerMatch(upm, soup, url) ==
    [k \in Keys |-> [x \in AllMatches |->
        IF InSeq(x, get_patterns(soup, k)) THEN url ELSE upm[k][x]]]

\* recursive_pattern_search gets the soup, runs the searches and enters
\* follow_frames, which counts the page if it has frames.
SearchPage ==
    /\ stack # <<>> /\ Top.op = "search"
    /\ ~stop_flag
    /\ TryMakeSoup(Top.url, cfg).how = "soup"
    /\ LET soup == Soup(Top.url) IN
        /\ exists' = TRUE
        /\ visited' = Append(visited, [url |-> Top.url, via |-> Top.via, soup |-> TRUE])
        /\ matches' = ExtendMatches(matches, soup)
        /\ url_per_match' = ExtendUrlPerMatch(url_per_match, soup, Top.url)
        /\ frame_counter' = IF soup.frames # <<>> THEN frame_counter + 1 ELSE frame_counter
        /\ stack' = <<FramesCall(Top.url, Top.follow, soup.frames)>> \o Pop
    /\ UNCHANGED <<nonCrawlVars, raised, cfg, external_hrefs, followed_urls, href_counter, branch_count,
                   href_df, stop_flag>>

\* The loop of follow_frames staying at a frame the budget does not allow.
FollowFrameRetrying ==
    /\ stack # <<>> /\ Top.op = "frames" /\ Top.srcs # <<>>
    /\ LET url == urljoin(Top.url, Top.srcs[1])
           loop == [Top EXCEPT !.url = url, !.srcs = Tail(Top.srcs)]
       IN  stack' = IF frame_counter <= cfg.max_frames
                    THEN <<SearchCall(url, TRUE, "frame"), loop>> \o Pop
                    ELSE stack
    /\ UNCHANGED <<nonCrawlVars, raised, cfg, matches, url_per_match, external_hrefs, followed_urls,
                   frame_counter, href_counter, branch_count, href_df, stop_flag,
                   exists, visited>>

\* One iteration of the loop of follow_frames.
FollowFrame ==
    /\ stack # <<>> /\ Top.op = "frames" /\ Top.srcs # <<>>
    /\ LET url == urljoin(Top.url, Top.srcs[1])
           loop == [Top EXCEPT !.url = url, !.srcs = Tail(Top.srcs)]
       IN  stack' = IF frame_counter <= cfg.max_frames
                    THEN <<SearchCall(url, TRUE, "frame"), loop>> \o Pop
                    ELSE <<loop>> \o Pop
    /\ UNCHANGED <<nonCrawlVars, raised, cfg, matches, url_per_match, external_hrefs, followed_urls,
                   frame_counter, href_counter, branch_count, href_df, stop_flag,
                   exists, visited>>

\* The external rows' URLs follow_hrefs stores (web_scraping.py:736-742).
RECURSIVE StoreExternal(_, _)
StoreExternal(rows, ext) ==
    IF rows = <<>> THEN ext
    ELSE StoreExternal(Tail(rows),
            IF rows[1].external /\ ~InSeq(FullEntry(rows[1].url), ext)
            THEN Append(ext, FullEntry(rows[1].url)) ELSE ext)

\* follow_frames is done; the page's visit ends, or follow_hrefs starts:
\* the table is made if there is none, the external URLs are stored.
FramesDone ==
    /\ stack # <<>> /\ Top.op = "frames" /\ Top.srcs = <<>>
    /\ IF Top.follow
       THEN \E made \in
                 {IF href_df.built
                  THEN [href_df |-> href_df, external_hrefs |-> external_hrefs,
                        branch_count |-> branch_count]
                  ELSE make_href_df(Soup(Top.page).links, external_hrefs,
                                    branch_count, cfg)} :
                /\ href_df' = made.href_df
                /\ branch_count' = made.branch_count
                /\ external_hrefs' = StoreExternal(made.href_df.rows, made.external_hrefs)
                /\ stack' = <<HrefsCall(1, FALSE)>> \o Pop
       ELSE /\ stack' = Pop
            /\ UNCHANGED <<href_df, branch_count, external_hrefs>>
    /\ UNCHANGED <<nonCrawlVars, raised, cfg, matches, url_per_match, followed_urls, frame_counter,
                   href_counter, stop_flag, exists, visited>>

\* The stop check at the end of an iteration of follow_hrefs
\* (web_scraping.py:771-777): the flag after it.
StopCheck(flag, m) ==
    flag \/ \E i \in 1..Len(cfg.stop_search_on_found_keys) :
                m[cfg.stop_search_on_found_keys[i]] # <<>>

\* The stack after the end of an iteration: break on the flag, else next row.
NextRow(flag) ==
    IF flag THEN Pop ELSE <<HrefsCall(Top.i + 1, FALSE)>> \o Pop

\* The iteration with the budget tested before the link is counted.
FollowHrefCountedAfter ==
    /\ stack # <<>> /\ Top.op = "hrefs" /\ ~Top.returned
    /\ Top.i <= Len(href_df.rows)
    /\ LET row == href_df.rows[Top.i] IN
        /\ href_counter' = href_counter + 1
        /\ IF InSeq(FullEntry(row.url), external_hrefs) \/ InSeq(row.url, followed_urls)
           THEN /\ stack' = <<HrefsCall(Top.i + 1, FALSE)>> \o Pop
                /\ UNCHANGED <<followed_urls, stop_flag>>
           ELSE /\ followed_urls' = Append(followed_urls, row.url)
                /\ IF href_counter <= cfg.max_hrefs
                   THEN /\ stack' = <<SearchCall(row.url, FALSE, "href"),
                                      HrefsCall(Top.i, TRUE)>> \o Pop
                        /\ UNCHANGED stop_flag
                   ELSE /\ stop_flag' = StopCheck(stop_flag, matches)
                        /\ stack' = NextRow(stop_flag')
    /\ UNCHANGED <<nonCrawlVars, raised, cfg, matches, url_per_match, external_hrefs,
                   frame_counter, branch_count, href_df, exists, visited>>

\* One iteration of the loop of follow_hrefs, up to the recursive call.
FollowHref ==
    /\ stack # <<>> /\ Top.op = "hrefs" /\ ~Top.returned
    /\ Top.i <= Len(href_df.rows)
    /\ LET row == href_df.rows[Top.i] IN
        /\ href_counter' = href_counter + 1
        /\ IF InSeq(FullEntry(row.url), external_hrefs) \/ InSeq(row.url, followed_urls)
           THEN /\ stack' = <<HrefsCall(Top.i + 1, FALSE)>> \o Pop
                /\ UNCHANGED <<followed_urls, stop_flag>>
           ELSE /\ followed_urls' = Append(followed_urls, row.url)
                /\ IF href_counter' <= cfg.max_hrefs
                   THEN /\ stack' = <<SearchCall(row.url, FALSE, "href"),
                                      HrefsCall(Top.i, TRUE)>> \o Pop
                        /\ UNCHANGED stop_flag
                   ELSE /\ stop_flag' = StopCheck(stop_flag, matches)
                        /\ stack' = NextRow(stop_flag')
    /\ UNCHANGED <<nonCrawlVars, raised, cfg, matches, url_per_match, external_hrefs, frame_counter,
                   branch_count, href_df, exists, visited>>

\* The recursive call of a row has returned: the rest of the iteration.
HrefReturned ==
    /\ stack # <<>> /\ Top.op = "hrefs" /\ Top.returned
    /\ stop_flag' = StopCheck(stop_flag, matches)
    /\ stack' = NextRow(stop_flag')
    /\ UNCHANGED <<nonCrawlVars, raised, cfg, matches, url_per_match, external_hrefs, followed_urls,
                   frame_counter, href_counter, branch_count, href_df, exists,
                   visited>>

\* The loop of follow_hrefs has no row left.
HrefsDone ==
    /\ stack # <<>> /\ Top.op = "hrefs" /\ ~Top.returned
    /\ Top.i > Len(href_df.rows)
    /\ stack' = Pop
    /\ UNCHANGED <<nonCrawlVars, raised, cfg, matches, url_per_match, external_hrefs, followed_urls,
                   frame_counter, href_counter, branch_count, href_df, stop_flag,
                   exists, visited>>

NextCrawl ==
    \/ SearchStopped \/ SearchNoSoup \/ SearchPage \/ FollowFrame
    \/ FramesDone \/ FollowHref \/ HrefReturned \/ HrefsDone

SpecCrawl == InitCrawl /\ [][NextCrawl]_vars

\* The crawl is one sequential call: while the call stack is not empty the
\* interpreter takes the next step.
SpecCrawlFair == InitCrawl /\ [][NextCrawl]_vars /\ WF_vars(NextCrawl)

\* The crawls of the sites with every failure of a GET, through the cache
\* (store_page_to_cache) and without it.
FetchConfigs ==
    [site : SiteNames,
     max_depth : {DefaultMaxDepth},
     max_branch_count : {MaxBranchCfg},
     max_hrefs : {MaxHrefsCfg},
     max_frames : {MaxFramesCfg},
     stop_search_on_found_keys : {<<>>, <<"A">>},
     sort_order_hrefs : {<<>>, <<"about">>},
     store_page_to_cache : BOOLEAN,
     failure : Failures]

InitFetch ==
    /\ cfg \in FetchConfigs
    /\ matches = [k \in Keys |-> <<>>]
    /\ url_per_match = [k \in Keys |-> [m \in AllMatches |-> NoUrl]]
    /\ external_hrefs = <<>>
    /\ followed_urls = <<>>
    /\ frame_counter = 0
    /\ href_counter = 0
    /\ branch_count = [b \in Branches |-> 0]
    /\ href_df = NoTable
    /\ stop_flag = FALSE
    /\ exists = FALSE
    /\ stack = <<SearchCall(SeedUrl, TRUE, "seed")>>
    /\ visited = <<>>
    /\ raised = ""
    /\ disk = <<>> /\ last = <<>> /\ got = <<>>
    /\ target = <<>> /\ req = <<>> /\ ctor = <<>>
    /\ measure = <<>>
    /\ hrefcheck = <<>> /\ race = <<>>

NextFetch ==
    \/ SearchStopped \/ SearchNoSoup \/ SearchPage \/ SearchRaised \/ FollowFrame
    \/ FramesDone \/ FollowHref \/ HrefReturned \/ HrefsDone

SpecFetch == InitFetch /\ [][NextFetch]_vars

----------------------------------------------------------------------------
(* cache_to_disk: the disk cache around get_page_from_url *)

\* The positional arguments of the calls: three URLs, two of which differ
\* only in a character make_cache_file_name replaces by "_".
Args == {"http://x/a.b", "http://x/a_b", "http://x/c"}

\* make_cache_file_name("get_page_from_url", (url,))
make_cache_file_name(args) ==
    IF args = "http://x/c" THEN "get_page_from_url_http_x_c_.pkl"
    ELSE "get_page_from_url_http_x_a_b_.pkl"

Files == {make_cache_file_name(a) : a \in Args}

\* What the wrapped function can return: no page, or the page as served now.
Results == {"None", "page1", "page2"}

\* A file of the cache directory: absent, a complete pickle of a result, an
\* empty file (pickle.load raises EOFError) or the head of a pickle
\* (pickle.load raises UnpicklingError).
Absent == [kind |-> "absent", data |-> "", size |-> 0]
Empty == [kind |-> "empty", data |-> "", size |-> 0]
Truncated == [kind |-> "truncated", data |-> "", size |-> 1]

\* pickle.dump(result, f) and pickle.load(f) on a complete file.
PickleSize(result) == IF result = "page2" THEN 2 ELSE 1
pickle_dump(result) == [kind |-> "pickle", data |-> result, size |-> PickleSize(result)]
pickle_load(file) == file.data

FileStates == {Absent, Empty, Truncated} \cup {pickle_dump(r) : r \in Results}

\* max_cache_dir_size: None, or a number.
NoBudget == [given |-> FALSE, mb |-> 0]
Budgets == {NoBudget} \cup {[given |-> TRUE, mb |-> n] : n \in 0..MaxBudget}

\* The I/O failure the operating system injects into a call, if any:
\*   mkdir      make_directory cannot create the directory (OSError, not EEXIST)
\*   read       open(cache, "rb") raises an OSError other than FileNotFoundError
\*   open_w     open(cache, "wb") raises OSError
\*   dump_0     the write fails with OSError and leaves an empty file
\*   dump_1     the write fails with OSError and leaves the head of the pickle
Faults == {"none", "mkdir", "read", "open_w", "dump_0", "dump_1"}

RECURSIVE SumSizes(_, _)
SumSizes(d, files) ==
    IF files = {} THEN 0
    ELSE LET f == CHOOSE x \in files : TRUE
         IN  d[f].size + SumSizes(d, files \ {f})

\* get_dir_size(cache_dir): the sum of the sizes of the files of the directory.
get_dir_size(d) == SumSizes(d, {f \in DOMAIN d : d[f].kind # "absent"})

\* The budget tested for truth: 0 counts as no budget.
skip_write_if_truthy(budget, d) ==
    budget.given /\ budget.mb # 0 /\ get_dir_size(d) >= budget.mb

\* The budget compared with > instead of >=.
skip_write_if_above(budget, d) ==
    IF budget.given
    THEN IF budget.mb = 0 THEN TRUE ELSE get_dir_size(d) > budget.mb
    ELSE FALSE

\* skip_write_new_cache (web_scraping.py:976-984).
skip_write_new_cache(budget, d) ==
    IF budget.given
    THEN IF budget.mb = 0 THEN TRUE ELSE get_dir_size(d) >= budget.mb
    ELSE FALSE

\* A read that never finds the entry.
ReadCacheNever(file, fault) == [how |-> "miss", data |-> ""]

\* The read of the entry (web_scraping.py:986-991): "hit" with the data,
\* "miss" on FileNotFoundError, OSError or EOFError, or the exception that
\* is not caught.
ReadCache(file, fault) ==
    IF fault = "read" THEN [how |-> "miss", data |-> ""]
    ELSE IF file.kind = "absent" THEN [how |-> "miss", data |-> ""]
    ELSE IF file.kind = "empty" THEN [how |-> "miss", data |-> ""]
    ELSE IF file.kind = "truncated" THEN [how |-> "UnpicklingError", data |-> ""]
    ELSE [how |-> "hit", data |-> pickle_load(file)]

\* The write of the new entry (web_scraping.py:993-999): the file after it.
WriteCache(file, result, fault) ==
    CASE fault = "open_w" -> file
      [] fault = "dump_0" -> Empty
      [] fault = "dump_1" -> Truncated
      [] OTHER -> pickle_dump(result)

\* The record of a call: its arguments, the fault injected, the size of the
\* directory and the kind of the entry when the call began, how the call ended
\* ("returned" or the exception raised), whether the wrapped function was
\* invoked, the value returned, whether the entry was written, and how the
\* call relates to the one before it (set by CachedFetch).
Outcome(args, skip_cache, budget, fault, d, how, invoked, result, wrote) ==
    [made |-> TRUE, args |-> args, skip_cache |-> skip_cache, budget |-> budget,
     fault |-> fault, dir_size |-> get_dir_size(d),
     entry |-> d[make_cache_file_name(args)].kind,
     how |-> how, invoked |-> invoked, result |-> result, wrote |-> wrote,
     prev |-> "other"]

\* One call of the wrapper (web_scraping.py:962-1000): the directory after it
\* and the record of the call.  fresh is what the wrapped function returns
\* if it is invoked.
wrapper(args, skip_cache, budget, fresh, fault, d) ==
    LET cache == make_cache_file_name(args)
        skip_write == skip_write_new_cache(budget, d)
        read == ReadCache(d[cache], fault)
        written == WriteCache(d[cache], fresh, fault)
    IN  IF skip_cache
        THEN [disk |-> d,
              last |-> Outcome(args, skip_cache, budget, fault, d,
                               "returned", TRUE, fresh, FALSE)]
        ELSE IF fault = "mkdir"
        THEN [disk |-> d,
              last |-> Outcome(args, skip_cache, budget, fault, d,
                               "OSError", FALSE, "", FALSE)]
        ELSE IF read.how = "hit"
        THEN [disk |-> d,
              last |-> Outcome(args, skip_cache, budget, fault, d,
                               "returned", FALSE, read.data, FALSE)]
        ELSE IF read.how # "miss"
        THEN [disk |-> d,
              last |-> Outcome(args, skip_cache, budget, fault, d,
                               read.how, FALSE, "", FALSE)]
        ELSE IF skip_write
        THEN [disk |-> d,
              last |-> Outcome(args, skip_cache, budget, fault, d,
                               "returned", TRUE, fresh, FALSE)]
        ELSE [disk |-> [d EXCEPT ![cache] = written],
              last |-> Outcome(args, skip_cache, budget, fault, d,
                               "returned", TRUE, fresh,
                               written = pickle_dump(fresh))]

NoCall ==
    [made |-> FALSE, args |-> "", skip_cache |-> FALSE, budget |-> NoBudget,
     fault |-> "none", dir_size |-> 0, entry |-> "absent", how |-> "",
     invoked |-> FALSE, result |-> "", wrote |-> FALSE, prev |-> "other"]

\* The directory a run starts with: empty, or with complete entries of
\* earlier runs.
InitCache ==
    /\ disk \in [Files -> {Absent} \cup {pickle_dump(r) : r \in Results}]
    /\ last = NoCall
    /\ cfg = <<>> /\ matches = <<>> /\ url_per_match = <<>>
    /\ external_hrefs = <<>> /\ followed_urls = <<>>
    /\ frame_counter = 0 /\ href_counter = 0 /\ branch_count = <<>>
    /\ href_df = NoTable /\ stop_flag = FALSE /\ exists = FALSE
    /\ stack = <<>> /\ visited = <<>> /\ raised = ""
    /\ got = <<>>
    /\ target = <<>> /\ req = <<>> /\ ctor = <<>>
    /\ measure = <<>>
    /\ hrefcheck = <<>> /\ race = <<>>

\* A fault can only strike an operation the call performs; make_directory
\* can only fail to create a directory that is not there.
FaultPossible(fault, args, skip_cache, budget, d) ==
    LET file == d[make_cache_file_name(args)]
        misses == ReadCache(file, fault).how = "miss"
    IN  CASE fault = "none" -> TRUE
          [] fault = "mkdir" -> ~skip_cache /\ \A f \in DOMAIN d : d[f].kind = "absent"
          [] fault = "read" -> ~skip_cache /\ file.kind # "absent"
          [] OTHER -> ~skip_cache /\ misses /\ ~skip_write_new_cache(budget, d)

\* A call used the cache undisturbed: skip_cache false, no fault, returned.
Undisturbed(c) == c.made /\ ~c.skip_cache /\ c.fault = "none" /\ c.how = "returned"

\* How a call relates to the call before it: "same" if both used the cache
\* undisturbed with the same positional arguments, "same_wrote" if moreover
\* the earlier one wrote the entry.
Relation(before, now) ==
    IF Undisturbed(before) /\ Undisturbed(now) /\ before.args = now.args
    THEN (IF before.wrote THEN "same_wrote" ELSE "same")
    ELSE "other"

\* get_page_from_url(url, skip_cache=..., max_cache_dir_size=...) through
\* the decorator.
CachedFetch ==
    /\ \E args \in Args, skip_cache \in BOOLEAN, budget \in Budgets,
          fresh \in Results, fault \in Faults :
        /\ FaultPossible(fault, args, skip_cache, budget, disk)
        /\ LET r == wrapper(args, skip_cache, budget, fresh, fault, disk)
           IN  /\ disk' = r.disk
               /\ last' = [r.last EXCEPT !.prev = Relation(last, r.last)]
    /\ UNCHANGED <<crawlVars, getVars, resolveVars, measureVars, restVars>>

NextCache == CachedFetch

SpecCache == InitCache /\ [][NextCache]_vars

----------------------------------------------------------------------------
(* get_page_from_url, as its callers call it: through the decorator *)

\* What the GET can give: an exception or a response.
Responses == Results \ {None}
GetOutcomes == Exceptions \cup Responses

NoGet ==
    [made |-> FALSE, args |-> "", skip_cache |-> FALSE, raise_exceptions |-> FALSE,
     performed |-> FALSE, response |-> "", how |-> "", exc |-> "", page |-> None]

\* One call get_page_from_url(url, skip_cache=..., max_cache_dir_size=...,
\* raise_exceptions=...): the wrapper invokes the function unless it finds
\* the entry; an exception of the function leaves the wrapper at once.
CachedGetPage(args, skip_cache, budget, response, raise_exceptions, d) ==
    LET invoked == wrapper(args, skip_cache, budget, None, "none", d).last.invoked
        page == get_page_from_url(response, raise_exceptions)
        call == [NoGet EXCEPT !.made = TRUE, !.args = args, !.skip_cache = skip_cache,
                              !.raise_exceptions = raise_exceptions,
                              !.performed = invoked,
                              !.response = IF invoked THEN response ELSE ""]
    IN  IF invoked /\ page.how = "raised"
        THEN [disk |-> d,
              got |-> [call EXCEPT !.how = "raised", !.exc = page.exc]]
        ELSE LET r == wrapper(args, skip_cache, budget, page.page, "none", d)
             IN  [disk |-> r.disk,
                  got |-> [call EXCEPT !.how = "returned", !.page = r.last.result]]

InitGet ==
    /\ disk \in [Files -> {Absent} \cup {pickle_dump(r) : r \in Results}]
    /\ last = NoCall
    /\ got = NoGet
    /\ cfg = <<>> /\ matches = <<>> /\ url_per_match = <<>>
    /\ external_hrefs = <<>> /\ followed_urls = <<>>
    /\ frame_counter = 0 /\ href_counter = 0 /\ branch_count = <<>>
    /\ href_df = NoTable /\ stop_flag = FALSE /\ exists = FALSE
    /\ stack = <<>> /\ visited = <<>> /\ raised = ""
    /\ target = <<>> /\ req = <<>> /\ ctor = <<>>
    /\ measure = <<>>
    /\ hrefcheck = <<>> /\ race = <<>>

GetPage ==
    /\ \E args \in Args, skip_cache \in BOOLEAN, budget \in Budgets,
          response \in GetOutcomes, raise_exceptions \in BOOLEAN :
        LET r == CachedGetPage(args, skip_cache, budget, response, raise_exceptions, disk)
        IN  /\ disk' = r.disk
            /\ got' = r.got
    /\ UNCHANGED <<crawlVars, last, resolveVars, measureVars, restVars>>

NextGet == GetPage

SpecGet == InitGet /\ [][NextGet]_vars

----------------------------------------------------------------------------
(* Two processes in the wrapper for one key on one cache directory *)

Procs == {1, 2}

\* The file as the writes of the processes leave it: pickle.dump through the
\* buffered file writes a blob in PickleSize pieces, each process at its own
\* offset.
Blob(result) == [i \in 1..PickleSize(result) |-> result]

\* What open(cache, 'rb') finds: no file, an empty file, a file that begins
\* with a complete pickle (pickle.load stops at its end), or another one.
FileOf(there, pieces) ==
    IF ~there THEN Absent
    ELSE IF pieces = <<>> THEN Empty
    ELSE IF /\ Len(pieces) >= PickleSize(pieces[1])
            /\ \A i \in 1..PickleSize(pieces[1]) : pieces[i] = pieces[1]
         THEN pickle_dump(pieces[1])
    ELSE Truncated

\* file.write of one piece at offset pos.
WritePiece(pieces, pos, piece) ==
    IF pos < Len(pieces) THEN [pieces EXCEPT ![pos + 1] = piece]
    ELSE Append(pieces, piece)

\* No entry for the key, or an empty file; both processes at the call.
InitRace ==
    /\ race \in [there : BOOLEAN, pieces : {<<>>},
                 pc : {[p \in Procs |-> "read"]},
                 computed : {[p \in Procs |-> ""]},
                 pos : {[p \in Procs |-> 0]},
                 how : {[p \in Procs |-> ""]},
                 result : {[p \in Procs |-> ""]},
                 closed : {<<>>}]
    /\ disk = <<>> /\ last = <<>> /\ got = <<>>
    /\ cfg = <<>> /\ matches = <<>> /\ url_per_match = <<>>
    /\ external_hrefs = <<>> /\ followed_urls = <<>>
    /\ frame_counter = 0 /\ href_counter = 0 /\ branch_count = <<>>
    /\ href_df = NoTable /\ stop_flag = FALSE /\ exists = FALSE
    /\ stack = <<>> /\ visited = <<>> /\ raised = ""
    /\ target = <<>> /\ req = <<>> /\ ctor = <<>>
    /\ measure = <<>> /\ hrefcheck = <<>>

\* open(cache, 'rb') and pickle.load (web_scraping.py:986-991).
LoadEntry ==
    /\ \E p \in Procs :
        /\ race.pc[p] = "read"
        /\ LET read == ReadCache(FileOf(race.there, race.pieces), "none") IN
             race' = CASE read.how = "hit" ->
                            [race EXCEPT !.pc[p] = "done", !.how[p] = "returned",
                                         !.result[p] = read.data]
                       [] read.how = "miss" -> [race EXCEPT !.pc[p] = "compute"]
                       [] OTHER -> [race EXCEPT !.pc[p] = "done", !.how[p] = read.how]
    /\ UNCHANGED <<crawlVars, cacheVars, getVars, resolveVars, measureVars, hrefcheck>>

\* result = func(*args, **kwargs) (web_scraping.py:992).
Compute ==
    /\ \E p \in Procs, result \in Responses :
        /\ race.pc[p] = "compute"
        /\ race' = [race EXCEPT !.pc[p] = "open", !.computed[p] = result]
    /\ UNCHANGED <<crawlVars, cacheVars, getVars, resolveVars, measureVars, hrefcheck>>

\* open(cache, 'wb') (web_scraping.py:995): the file is created or emptied.
OpenForWrite ==
    /\ \E p \in Procs :
        /\ race.pc[p] = "open"
        /\ race' = [race EXCEPT !.pc[p] = "dump", !.pos[p] = 0,
                                !.there = TRUE, !.pieces = <<>>]
    /\ UNCHANGED <<crawlVars, cacheVars, getVars, resolveVars, measureVars, hrefcheck>>

\* pickle.dump(result, f) (web_scraping.py:997): the next piece reaches the
\* file; after the last one the file is closed and the result returned.
Dump ==
    /\ \E p \in Procs :
        /\ race.pc[p] = "dump"
        /\ LET written == WritePiece(race.pieces, race.pos[p], race.computed[p])
                finished == race.pos[p] + 1 = PickleSize(race.computed[p])
            IN  race' = IF finished
                        THEN [race EXCEPT !.pieces = written, !.pos[p] = @ + 1,
                                          !.pc[p] = "done", !.how[p] = "returned",
                                          !.result[p] = race.computed[p],
                                          !.closed = Append(@, p)]
                        ELSE [race EXCEPT !.pieces = written, !.pos[p] = @ + 1]
    /\ UNCHANGED <<crawlVars, cacheVars, getVars, resolveVars, measureVars, hrefcheck>>

NextRace == LoadEntry \/ Compute \/ OpenForWrite \/ Dump

SpecRace == InitRace /\ [][NextRace]_vars

----------------------------------------------------------------------------
(* RequestUrl: scheme resolution, and the constructor of UrlSearchStrings *)

Schemas == {"https", "http"}
OtherSchema(schema) == IF schema = "https" THEN "http" ELSE "https"

\* add_schema_to_url(strip_url_schema(url), schema) for the URL of the target.
add_schema_to_url(schema) ==
    IF schema = "https" THEN "https://www.example.com/" ELSE "http://www.example.com/"

\* url.startswith("https://")
StartsWithHttps(url) == url = add_schema_to_url("https")

\* What session.head(full_url, verify=verify, allow_redirects=True) gives:
\* an SSLError, another exception (ConnectionError stands for every exception
\* of the two other except clauses, which do the same), or the last response
\* of the redirect chain: 200 at the requested scheme, 200 at a URL of the
\* other scheme, or a status that is not 200.
ProbeOutcomes == {"SSLError", "ConnectionError", "200", "200_redirected", "404"}
RaisesAtHead(outcome) == outcome \in {"SSLError", "ConnectionError"}
StatusCode(outcome) == IF outcome = "404" THEN "404" ELSE "200"
FinalUrl(outcome, schema) ==
    add_schema_to_url(IF outcome = "200_redirected" THEN OtherSchema(schema) ELSE schema)

\* The requests a server can be sent: one per scheme and verification mode.
Requests == [schema : Schemas, verify : BOOLEAN]
Targets == [Requests -> ProbeOutcomes]

\* verify=None leaves the session's default, which verifies.
Verifies(verify) == verify # "False"
session_head(server, probe) ==
    server[[schema |-> probe.schema, verify |-> Verifies(probe.verify)]]

Attempt(schema, verify) == [schema |-> schema, verify |-> verify]

\* The loops with http tried before https.
ProbeOrderHttpFirst ==
    <<Attempt("http", "True"), Attempt("http", "False"),
      Attempt("https", "True"), Attempt("https", "False")>>

\* The order of the loops of assign_protocol_to_url.
ProbeOrder ==
    <<Attempt("https", "True"), Attempt("https", "False"),
      Attempt("http", "True"), Attempt("http", "False")>>

\* RequestUrl.__init__ up to the first request: the attributes, the requests
\* still to make (pending) and whether a success ends them (in_loop).
RequestUrl(schema, ssl_valid, validate_url) ==
    LET new == [url |-> None, ssl |-> None, connection_error |-> FALSE,
                ssl_valid |-> "True", status_code |-> None, verify |-> "True",
                schema |-> "unset", probes |-> <<>>, pending |-> <<>>,
                in_loop |-> FALSE]
    IN  IF schema = None
        THEN [new EXCEPT !.pending = ProbeOrder, !.in_loop = TRUE]
        ELSE LET given == [new EXCEPT !.url = add_schema_to_url(schema),
                                      !.ssl_valid = ssl_valid]
             IN  IF Truthy(validate_url)
                 THEN [given EXCEPT !.pending = <<Attempt(schema, ssl_valid)>>]
                 ELSE [given EXCEPT !.status_code = "200"]

\* A request that keeps the URL and the status of a successful response only.
make_contact_keeping_success(r, probe, outcome) ==
    LET asked == [r EXCEPT !.verify = probe.verify,
                           !.probes = Append(r.probes, probe)]
    IN  CASE outcome = "SSLError" ->
                [req |-> [asked EXCEPT !.ssl_valid = "False"], success |-> FALSE]
          [] outcome = "ConnectionError" ->
                [req |-> [asked EXCEPT !.connection_error = TRUE], success |-> FALSE]
          [] outcome = "404" -> [req |-> asked, success |-> FALSE]
          [] OTHER ->
                [req |-> [asked EXCEPT !.status_code = StatusCode(outcome),
                                       !.url = FinalUrl(outcome, probe.schema)],
                 success |-> TRUE]

\* A request whose response clears the flags of the failures before it.
make_contact_clearing_flags(r, probe, outcome) ==
    LET asked == [r EXCEPT !.verify = probe.verify,
                           !.probes = Append(r.probes, probe)]
    IN  CASE outcome = "SSLError" ->
                [req |-> [asked EXCEPT !.ssl_valid = "False"], success |-> FALSE]
          [] outcome = "ConnectionError" ->
                [req |-> [asked EXCEPT !.connection_error = TRUE], success |-> FALSE]
          [] OTHER ->
                [req |-> [asked EXCEPT !.status_code = StatusCode(outcome),
                                       !.url = FinalUrl(outcome, probe.schema),
                                       !.ssl_valid = "True",
                                       !.connection_error = FALSE],
                 success |-> StatusCode(outcome) = "200"]

\* make_contact_with_url: the attributes after the request, and success.
make_contact_with_url(r, probe, outcome) ==
    LET asked == [r EXCEPT !.verify = probe.verify,
                           !.probes = Append(r.probes, probe)]
    IN  CASE outcome = "SSLError" ->
                [req |-> [asked EXCEPT !.ssl_valid = "False"], success |-> FALSE]
          [] outcome = "ConnectionError" ->
                [req |-> [asked EXCEPT !.connection_error = TRUE], success |-> FALSE]
          [] OTHER ->
                [req |-> [asked EXCEPT !.status_code = StatusCode(outcome),
                                       !.url = FinalUrl(outcome, probe.schema)],
                 success |-> StatusCode(outcome) = "200"]

\* The end of RequestUrl.__init__ (web_scraping.py:309-315).
SetSchema(r) ==
    IF r.url # None
    THEN [r EXCEPT !.ssl = Bool(StartsWithHttps(r.url)),
                   !.schema = IF StartsWithHttps(r.url) THEN "https" ELSE "http"]
    ELSE r

\* self.validate_url of UrlSearchStrings (web_scraping.py:512-517).
ValidateUrl(schema, ssl_valid, validate_url) ==
    IF schema # None /\ ssl_valid # None
    THEN (IF validate_url = None THEN "False" ELSE validate_url)
    ELSE "True"

NoRequestUrl == [url |-> None, ssl |-> None, connection_error |-> FALSE,
                 ssl_valid |-> None, status_code |-> None, verify |-> None,
                 schema |-> "unset", probes |-> <<>>, pending |-> <<>>,
                 in_loop |-> FALSE]

\* The arguments of UrlSearchStrings(url, ...) that decide the resolution.
Constructions ==
    [schema : Schemas \cup {None}, ssl_valid : {"True", "False", None},
     validate_url : {"True", "False", None}, scrape_url : BOOLEAN,
     pc : {"start"}, self_schema : {None}, self_ssl_valid : {None},
     how : {""}, exists : {"False"}]

\* The crawl configuration of the constructions (not varied here).
ResolveConfig ==
    [site |-> "deep", max_depth |-> DefaultMaxDepth, max_branch_count |-> 1,
     max_hrefs |-> 1, max_frames |-> 1, stop_search_on_found_keys |-> <<>>,
     sort_order_hrefs |-> <<>>, store_page_to_cache |-> FALSE, failure |-> "404"]

InitResolve ==
    /\ target \in Targets
    /\ ctor \in Constructions
    /\ req = NoRequestUrl
    /\ cfg = ResolveConfig
    /\ matches = [k \in Keys |-> <<>>]
    /\ url_per_match = [k \in Keys |-> [m \in AllMatches |-> NoUrl]]
    /\ external_hrefs = <<>>
    /\ followed_urls = <<>>
    /\ frame_counter = 0
    /\ href_counter = 0
    /\ branch_count = [b \in Branches |-> 0]
    /\ href_df = NoTable
    /\ stop_flag = FALSE
    /\ exists = FALSE
    /\ stack = <<>>
    /\ visited = <<>>
    /\ raised = ""
    /\ disk = <<>> /\ last = <<>> /\ got = <<>>
    /\ measure = <<>>
    /\ hrefcheck = <<>> /\ race = <<>>

\* UrlSearchStrings.__init__ calls RequestUrl(url, schema, ssl_valid, validate_url).
RequestUrlInit ==
    /\ ctor.pc = "start"
    /\ req' = RequestUrl(ctor.schema, ctor.ssl_valid,
                         ValidateUrl(ctor.schema, ctor.ssl_valid, ctor.validate_url))
    /\ ctor' = [ctor EXCEPT !.pc = "RequestUrl"]
    /\ UNCHANGED <<crawlVars, cacheVars, getVars, measureVars, restVars, target>>

\* One call of make_contact_with_url; in the loops of assign_protocol_to_url
\* a success breaks out of both.
Probe ==
    /\ ctor.pc = "RequestUrl" /\ req.pending # <<>>
    /\ LET probe == req.pending[1]
           r == make_contact_with_url(req, probe, session_head(target, probe))
       IN  req' = [r.req EXCEPT !.pending = IF req.in_loop /\ r.success
                                             THEN <<>> ELSE Tail(req.pending)]
    /\ UNCHANGED <<crawlVars, cacheVars, getVars, measureVars, restVars, target, ctor>>

\* RequestUrl.__init__ returns.
RequestUrlDone ==
    /\ ctor.pc = "RequestUrl" /\ req.pending = <<>>
    /\ req' = SetSchema(req)
    /\ ctor' = [ctor EXCEPT !.pc = "init"]
    /\ UNCHANGED <<crawlVars, cacheVars, getVars, measureVars, restVars, target>>

\* The rest of UrlSearchStrings.__init__ (web_scraping.py:523-579): reading
\* self.req.schema raises AttributeError if RequestUrl never set it; the
\* search starts only for a URL with status 200.
Construct ==
    /\ ctor.pc = "init"
    /\ IF ctor.schema = None /\ req.schema = "unset"
       THEN /\ ctor' = [ctor EXCEPT !.pc = "done", !.how = "AttributeError"]
            /\ UNCHANGED stack
       ELSE LET self == [ctor EXCEPT
                    !.pc = "done",
                    !.self_schema = IF ctor.schema = None THEN req.schema ELSE ctor.schema,
                    !.self_ssl_valid = IF ctor.ssl_valid = None THEN req.ssl_valid
                                       ELSE ctor.ssl_valid]
            IN  IF ctor.scrape_url
                THEN IF req.url # None /\ req.status_code = "200"
                     THEN /\ ctor' = [self EXCEPT !.how = "search"]
                          /\ stack' = <<SearchCall(SeedUrl, TRUE, "seed")>>
                     ELSE /\ ctor' = [self EXCEPT !.how = "unreachable", !.exists = "False"]
                          /\ UNCHANGED stack
                ELSE /\ ctor' = [self EXCEPT !.how = "not_scraped", !.exists = None]
                     /\ UNCHANGED stack
    /\ UNCHANGED <<cfg, matches, url_per_match, external_hrefs, followed_urls,
                   frame_counter, href_counter, branch_count, href_df, stop_flag,
                   exists, visited, raised,
                   cacheVars, getVars, measureVars, restVars, target, req>>

NextResolve == RequestUrlInit \/ Probe \/ RequestUrlDone \/ Construct

SpecResolve == InitResolve /\ [][NextResolve]_vars

----------------------------------------------------------------------------
(* string_measures: the Levenshtein and the optimal string alignment distance *)

Alphabet == {"a", "b"}
Strings == UNION {[1..n -> Alphabet] : n \in 0..MaxStrLen}

Min(x, y) == IF x <= y THEN x ELSE y

\* d[i, j] of levenshtein_distance (string_measures.py:51-73); s[i] here is
\* s[i - 1] there.
RECURSIVE LevenshteinMatrix(_, _, _, _)
LevenshteinMatrix(s, t, i, j) ==
    IF j = 0 THEN i
    ELSE IF i = 0 THEN j
    ELSE LET substitution_cost == IF s[i] = t[j] THEN 0 ELSE 1
         IN  Min(LevenshteinMatrix(s, t, i - 1, j) + 1,
                 Min(LevenshteinMatrix(s, t, i, j - 1) + 1,
                     LevenshteinMatrix(s, t, i - 1, j - 1) + substitution_cost))

\* The count of the positions at which both strings have different characters.
RECURSIVE Mismatches(_, _, _)
Mismatches(s, t, n) ==
    IF n = 0 THEN 0
    ELSE Mismatches(s, t, n - 1) + (IF s[n] = t[n] THEN 0 ELSE 1)
substitutions_only(s, t) == Mismatches(s, t, Min(Len(s), Len(t)))

levenshtein_distance(s, t) == LevenshteinMatrix(s, t, Len(s), Len(t))

\* d[i, j] of optimal_string_alignment_distance (string_measures.py:114-142).
RECURSIVE OsaMatrix(_, _, _, _)
OsaMatrix(s, t, i, j) ==
    IF j = 0 THEN i
    ELSE IF i = 0 THEN j
    ELSE LET cost == IF s[i] = t[j] THEN 0 ELSE 1
             substitution_cost == IF s[i] = t[j] THEN 0 ELSE 1
             d == Min(OsaMatrix(s, t, i - 1, j) + 1,
                      Min(OsaMatrix(s, t, i, j - 1) + 1,
                          OsaMatrix(s, t, i - 1, j - 1) + substitution_cost))
         IN  IF i > 1 /\ j > 1 /\ s[i] = t[j - 1] /\ s[i - 1] = t[j]
             THEN Min(d, OsaMatrix(s, t, i - 2, j - 2) + cost)
             ELSE d

optimal_string_alignment_distance(s, t) == OsaMatrix(s, t, Len(s), Len(t))

\* Two strings, and the distances computed for them so far.
InitMeasure ==
    /\ measure \in [s : Strings, t : Strings, lv_done : {FALSE}, lv : {0},
                    osa_done : {FALSE}, osa : {0}]
    /\ disk = <<>> /\ last = <<>> /\ got = <<>>
    /\ cfg = <<>> /\ matches = <<>> /\ url_per_match = <<>>
    /\ external_hrefs = <<>> /\ followed_urls = <<>>
    /\ frame_counter = 0 /\ href_counter = 0 /\ branch_count = <<>>
    /\ href_df = NoTable /\ stop_flag = FALSE /\ exists = FALSE
    /\ stack = <<>> /\ visited = <<>> /\ raised = ""
    /\ target = <<>> /\ req = <<>> /\ ctor = <<>>
    /\ hrefcheck = <<>> /\ race = <<>>

Levenshtein ==
    /\ ~measure.lv_done
    /\ measure' = [measure EXCEPT !.lv_done = TRUE,
                                  !.lv = levenshtein_distance(measure.s, measure.t)]
    /\ UNCHANGED <<crawlVars, cacheVars, getVars, resolveVars, restVars>>

OptimalStringAlignment ==
    /\ ~measure.osa_done
    /\ measure' = [measure EXCEPT
            !.osa_done = TRUE,
            !.osa = optimal_string_alignment_distance(measure.s, measure.t)]
    /\ UNCHANGED <<crawlVars, cacheVars, getVars, resolveVars, restVars>>

NextMeasure == Levenshtein \/ OptimalStringAlignment

SpecMeasure == InitMeasure /\ [][NextMeasure]_vars

----------------------------------------------------------------------------
(* HRefCheck on its own: hrefs classified one after another on one Counter *)

\* The hrefs classified: "#", "/a?page=2", "/logo.png", "tel:0123", "/a",
\* "/a/b", "/a/p.html", "/a/b/x", "a.html", "https://www.example.com/b" and
\* "https://other.org/x".
ClassifyHrefs ==
    {Special, Query, Image, Tel, Root(<<"a">>), Root(<<"a", "b">>),
     Root(<<"a", "p.html">>), Root(<<"a", "b", "x">>), Bare(<<"a.html">>),
     Abs(SeedHost, <<"b">>), Abs(OtherHost, <<"x">>)}

\* A fresh Counter, and the max_depth and max_branch_count of the checks.
InitClassify ==
    /\ hrefcheck \in [made : {FALSE}, href : {Special}, valid : {FALSE},
                  max_depth : 0..MaxDepthCfg, max_branch_count : 1..MaxBranchCfg,
                  branch_count : {[b \in Branches |-> 0]}, n : {0}]
    /\ disk = <<>> /\ last = <<>> /\ got = <<>>
    /\ cfg = <<>> /\ matches = <<>> /\ url_per_match = <<>>
    /\ external_hrefs = <<>> /\ followed_urls = <<>>
    /\ frame_counter = 0 /\ href_counter = 0 /\ branch_count = <<>>
    /\ href_df = NoTable /\ stop_flag = FALSE /\ exists = FALSE
    /\ stack = <<>> /\ visited = <<>> /\ raised = ""
    /\ target = <<>> /\ req = <<>> /\ ctor = <<>>
    /\ measure = <<>> /\ race = <<>>

\* HRefCheck(href, url, branch_count=the shared Counter, ...) for one more href.
Classify ==
    /\ hrefcheck.n < MaxChecks
    /\ \E href \in ClassifyHrefs :
         LET c == HRefCheck(href, SeedUrl, hrefcheck.max_depth, hrefcheck.branch_count,
                            hrefcheck.max_branch_count)
         IN  hrefcheck' = [hrefcheck EXCEPT !.made = TRUE, !.href = href,
                                    !.valid = c.valid_href,
                                    !.branch_count = c.branch_count,
                                    !.n = @ + 1]
    /\ UNCHANGED <<crawlVars, cacheVars, getVars, resolveVars, measureVars, race>>

NextClassify == Classify

SpecClassify == InitClassify /\ [][NextClassify]_vars

----------------------------------------------------------------------------
(* The claims about the crawl, checked under SpecCrawl *)

\* The branch depth of a URL: its path segments, a trailing .html segment
\* not counted.
BranchDepth(url) ==
    IF EndsWithHtml(url.path) THEN Len(url.path) - 1 ELSE Len(url.path)

\* C1: a crawl configured with max_depth = N never visits a page whose branch
\* depth exceeds N.
C1_DepthBound ==
    \A i \in 1..Len(visited) : BranchDepth(visited[i].url) <= cfg.max_depth

\* The distinct links of a branch visited through href-following.
VisitedOfBranch(b) ==
    {visited[i].url : i \in {j \in 1..Len(visited) :
        /\ visited[j].via = "href"
        /\ visited[j].url.path # <<>>
        /\ visited[j].url.path[1] = b}}

\* C2: a crawl configured with max_branch_count = K accepts and visits at most
\* K distinct links whose first path segment is the same branch.
C2_BranchCountBound ==
    \A b \in Branches : Cardinality(VisitedOfBranch(b)) <= cfg.max_branch_count

\* C3: with A a stop key, once a visited page (the seed page included) has
\* yielded a match for A, no further page is fetched through href-following.
C3_StopOnMatch ==
    [][(InSeq("A", cfg.stop_search_on_found_keys) /\ matches["A"] # <<>>)
        => \/ visited' = visited
           \/ visited'[Len(visited')].via # "href"]_vars

RegistrableDiffers(url) ==
    TldRegisteredDomain(url.host) # TldRegisteredDomain(SeedUrl.host)

\* C4: every valid link whose registrable domain differs from that of the seed
\* is recorded in external_hrefs and never passed to recursive_pattern_search.
C4_ExternalExclusion ==
    \A r \in 1..Len(href_df.rows) :
        RegistrableDiffers(href_df.rows[r].url)
        => /\ \/ InSeq(CleanEntry(get_clean_url(href_df.rows[r].url)), external_hrefs)
              \/ InSeq(FullEntry(href_df.rows[r].url), external_hrefs)
           /\ \A i \in 1..Len(visited) : visited[i].url # href_df.rows[r].url

\* The ranking of the row of the HrefTable with this URL.
RankingOf(url) ==
    LET r == CHOOSE i \in 1..Len(href_df.rows) : href_df.rows[i].url = url
    IN  href_df.rows[r].ranking

\* C5: every internal link of the HrefTable whose href matches a pattern of
\* the ranked keyword list is followed before every link whose href matches
\* none: when a link of ranking 0 is followed, every internal link of ranking
\* 1 has been followed before it.
C5_RankingOrder ==
    \A j \in 1..Len(visited) : \A r \in 1..Len(href_df.rows) :
        (/\ visited[j].via = "href"
         /\ RankingOf(visited[j].url) = 0
         /\ href_df.rows[r].ranking = 1
         /\ ~href_df.rows[r].external)
        => \E i \in 1..(j - 1) :
              visited[i].via = "href" /\ visited[i].url = href_df.rows[r].url

\* C5's case: a link that matches no keyword has been followed in a crawl
\* whose table holds a link that matches one.
C5_Witness ==
    /\ cfg.sort_order_hrefs # <<>>
    /\ \E j \in 1..Len(visited) : \E r \in 1..Len(href_df.rows) :
          /\ visited[j].via = "href" /\ visited[j].soup
          /\ RankingOf(visited[j].url) = 0
          /\ href_df.rows[r].ranking = 1 /\ ~href_df.rows[r].external

\* The matches of the pages of a log, page after page.
RECURSIVE MatchesOfLog(_, _)
MatchesOfLog(log, k) ==
    IF log = <<>> THEN <<>>
    ELSE LET e == log[Len(log)]
         IN  MatchesOfLog(SubSeq(log, 1, Len(log) - 1), k)
             \o (IF e.soup THEN get_patterns(Soup(e.url), k) ELSE <<>>)

\* C6: for each key the match list is the concatenation, in page-visit order,
\* of the matches found on each visited page, duplicates kept, and every match
\* of the list is mapped in the side table to the URL of a visited page on
\* which it was found (the seed URL when only the seed page was visited).
C6_MatchAggregation ==
    \A k \in Keys :
        /\ matches[k] = MatchesOfLog(visited, k)
        /\ \A n \in 1..Len(matches[k]) :
              LET url == url_per_match[k][matches[k][n]]
              IN  /\ url # NoUrl
                  /\ \E i \in 1..Len(visited) :
                        /\ visited[i].soup /\ visited[i].url = url
                        /\ InSeq(matches[k][n], get_patterns(Soup(url), k))
                  /\ Len(visited) = 1 => url = SeedUrl

\* C6's case: a finished crawl of several pages in which one match was found
\* on two pages.
C6_Witness ==
    /\ stack = <<>>
    /\ Len(visited) >= 3
    /\ \E k \in Keys : \E m, n \in 1..Len(matches[k]) :
          m < n /\ matches[k][m] = matches[k][n]
          /\ url_per_match[k][matches[k][n]] # SeedUrl

\* The visits made through a frame src, and those through a link.
Visits(via) == {i \in 1..Len(visited) : visited[i].via = via}

\* C18: the frame counter is incremented once for each frame src before the
\* recursion into it and a src is recursed into only while the counter does
\* not exceed max_frames, so at most max_frames frame sources are recursed
\* into during one crawl.
C18_FrameBudget ==
    /\ Cardinality(Visits("frame")) <= cfg.max_frames
    /\ Cardinality(Visits("frame")) <= frame_counter

\* C19: the number of pages visited through href-following never exceeds
\* max_hrefs, and once the link counter exceeds max_hrefs no further link is
\* recursed into.
C19_HrefBudget ==
    [][/\ Cardinality(Visits("href")') <= cfg.max_hrefs
       /\ Cardinality(Visits("href")') <= href_counter'
       /\ href_counter > cfg.max_hrefs
          => \A i \in 1..Len(stack') : stack'[i].op = "search" => stack'[i].via # "href"
      ]_vars

\* C19's case: max_hrefs links have been visited and a further link of the
\* table has been refused.
C19_Witness ==
    /\ cfg.max_hrefs >= 1
    /\ Cardinality(Visits("href")) = cfg.max_hrefs
    /\ href_counter > cfg.max_hrefs
    /\ Len(followed_urls) > cfg.max_hrefs

\* C20: follow_hrefs runs only in the initial call for the entry page, never
\* during the visit of a page reached through a link or through a frame src:
\* its loop is never on the call stack above another loop.
C20_HrefsOnlyFromEntryPage ==
    \A i \in 1..Len(stack) : stack[i].op = "hrefs" => i = Len(stack)

\* The table make_href_df makes of the links of the seed page, at the start
\* of the crawl.
SeedTable ==
    make_href_df(Soup(SeedUrl).links, <<>>, [b \in Branches |-> 0], cfg).href_df

\* C21: the HrefTable is built once in a crawl and only from the links of
\* the seed page: a built table is never changed, and a built table is the
\* table of the links of the seed page, never of the links of a page reached
\* through a frame src or through a link.
C21_TableOnlyFromSeedPage ==
    [][/\ href_df.built => href_df' = href_df
       /\ href_df'.built => href_df'.rows = SeedTable.rows]_vars

\* The rows make_href_df collects, before the sort and the removal of the
\* duplicates, from the links of the page whose call of follow_hrefs is
\* about to start.
Classified ==
    CheckLinks(Soup(Top.page).links,
               [rows |-> <<>>, external_hrefs |-> external_hrefs,
                branch_count |-> branch_count], cfg).rows

\* The step that builds the table.
TableBuilt == ~href_df.built /\ href_df'.built

\* URLs that a relative and a non-relative collected href both resolve to.
BothForms ==
    {u \in {Classified[i].url : i \in 1..Len(Classified)} :
        \E i, j \in 1..Len(Classified) :
            /\ Classified[i].url = u /\ Classified[j].url = u
            /\ Classified[i].relative /\ ~Classified[j].relative}

UniqueUrls(rows) ==
    \A i, j \in 1..Len(rows) : rows[i].url = rows[j].url => i = j

\* C22 as stated: when the table is built no two of its rows have the same
\* resolved URL, and of a relative and a non-relative href that resolve to
\* the same URL the row kept is the non-relative one.
C22_KeepsNonRelative ==
    [][TableBuilt =>
         /\ UniqueUrls(href_df'.rows)
         /\ \A i \in 1..Len(href_df'.rows) :
               href_df'.rows[i].url \in BothForms => ~href_df'.rows[i].relative]_vars

\* C22 amended: when the table is built no two of its rows have the same
\* resolved URL, every URL collected has a row, and of a relative and a
\* non-relative href that resolve to the same URL the row kept is the
\* relative one.
C22_KeepsRelative ==
    [][TableBuilt =>
         /\ UniqueUrls(href_df'.rows)
         /\ \A i \in 1..Len(Classified) :
               \E j \in 1..Len(href_df'.rows) : href_df'.rows[j].url = Classified[i].url
         /\ \A i \in 1..Len(href_df'.rows) :
               href_df'.rows[i].url \in BothForms => href_df'.rows[i].relative]_vars

\* A table built from a page that links to one URL in both forms.
C22_Witness ==
    /\ href_df.built
    /\ \E i \in 1..Len(href_df.rows) :
         /\ href_df.rows[i].relative
         /\ \E k \in 1..Len(Soup(SeedUrl).links) :
              LET link == Soup(SeedUrl).links[k] IN
                /\ link.form = "abs"
                /\ Url(link.host, link.path) = href_df.rows[i].url

\* C23: the src of every frame of a page, the second and later ones
\* included, is resolved against the URL of the page that holds the frame:
\* the URL follow_frames searches for a frame is the src joined to the URL
\* of that page, not to the URL of the frame before it.
C23_FrameSrcAgainstPage ==
    [][(/\ stack # <<>> /\ Top.op = "frames" /\ Top.srcs # <<>>
        /\ stack' # <<>> /\ stack'[1].op = "search")
       => stack'[1].url = urljoin(Top.page, Top.srcs[1])]_vars

\* C27: the stop flag, once set, is never cleared, and from then on no page
\* is fetched and no match list and no entry of url_per_match changes; this
\* holds for the frames still to come in a loop of follow_frames that
\* encloses the call in which the flag was set.
C27_StopIsFinal ==
    [][stop_flag =>
         /\ stop_flag'
         /\ visited' = visited
         /\ matches' = matches
         /\ url_per_match' = url_per_match]_vars

\* The flag is set and the search of a frame of an enclosing follow_frames
\* has returned at once: the frame budget allowed the search but the frame
\* is not in the log of the fetches, and the loop has a further frame to go.
C27_Witness ==
    /\ stop_flag
    /\ stack # <<>> /\ Top.op = "frames" /\ Top.srcs # <<>>
    /\ Top.url # Top.page /\ frame_counter <= cfg.max_frames
    /\ \A i \in 1..Len(visited) : visited[i].url # Top.url

\* The positions in the log of the visits that gave a soup holding match x
\* of key k.
FoundAt(k, x) ==
    {i \in 1..Len(visited) :
        visited[i].soup /\ InSeq(x, get_patterns(Soup(visited[i].url), k))}

\* C29: at every point of a crawl, for each key the keys of
\* url_per_match[key] are exactly the values that occur in matches[key], and
\* each is mapped to the URL of the page visited last among the pages on
\* which the match was found.
C29_UrlPerMatchConsistent ==
    \A k \in Keys, x \in AllMatches :
        /\ url_per_match[k][x] # NoUrl <=> InSeq(x, matches[k])
        /\ InSeq(x, matches[k])
           => /\ FoundAt(k, x) # {}
              /\ url_per_match[k][x] =
                   visited[CHOOSE i \in FoundAt(k, x) :
                              \A j \in FoundAt(k, x) : j <= i].url

\* A match found on two pages of different URLs.
C29_Witness ==
    \E k \in Keys, x \in AllMatches :
        \E i, j \in FoundAt(k, x) :
            /\ i < j /\ visited[i].url # visited[j].url
            /\ url_per_match[k][x] = visited[j].url

----------------------------------------------------------------------------
(* The claim about termination, checked under SpecCrawlFair *)

\* C28: every crawl of a finite site ends, also when the site has cycles (a
\* page that frames itself, pages that link to each other): the call stack
\* of the crawl becomes empty.
C28_CrawlTerminates == <>(stack = <<>>)

\* A crawl that has ended after it visited one URL more than once through a
\* frame src and went through the link table.
C28_Witness ==
    /\ stack = <<>>
    /\ followed_urls # <<>>
    /\ \E i, j \in 1..Len(visited) :
         i < j /\ visited[i].url = visited[j].url /\ visited[j].via = "frame"

----------------------------------------------------------------------------
(* The claim about the link classifier, checked under SpecClassify *)

EarlyRules == {"special", "query", "file", "colon"}

----------------------------------------------------------------------------
(* The claims about the cache, checked under SpecCache *)

ZeroBudget == [given |-> TRUE, mb |-> 0]

\* The entry of the last call's arguments, as the directory holds it now.
EntryNow == disk[make_cache_file_name(last.args)]

WriteAdmitted(c) ==
    ~c.budget.given \/ (c.budget.mb # 0 /\ c.dir_size < c.budget.mb)

C8_ZeroBudget ==
    [][(last'.made /\ last'.budget = ZeroBudget)
        => /\ \A f \in Files : disk[f].kind = "absent" => disk'[f].kind = "absent"
           /\ (~last'.skip_cache /\ last'.fault = "none" /\ last'.entry = "pickle")
              => /\ last'.how = "returned"
                 /\ ~last'.invoked
                 /\ last'.result = pickle_load(disk[make_cache_file_name(last'.args)])
       ]_vars

\* C8's case: a call with budget 0 and new arguments has computed its result
\* and the entry is still not there.
C8_Witness ==
    /\ last.made /\ last.budget = ZeroBudget /\ ~last.skip_cache
    /\ last.invoked /\ last.how = "returned" /\ last.entry = "absent"
    /\ EntryNow.kind = "absent"

C10_CacheErrorsRecovered ==
    last.made
    => /\ last.how = "returned"
       /\ (~last.skip_cache /\ (last.entry # "pickle" \/ last.fault = "read"))
          => last.invoked

----------------------------------------------------------------------------
(* The claim about two processes on one cache entry, checked under SpecRace *)

\* C26: when two processes make the cached call with the same key at the
\* same time, under every interleaving of their steps both calls return
\* without raising and return a result that was computed, and once both are
\* done the entry on disk is the complete blob of the process that finished
\* its write last.
C26_RaceIsBenign ==
    /\ \A p \in Procs :
         race.pc[p] = "done"
         => /\ race.how[p] = "returned"
            /\ \E q \in Procs : race.computed[q] # "" /\ race.result[p] = race.computed[q]
    /\ (race.closed # <<>> /\ \A p \in Procs : race.pc[p] = "done")
       => /\ race.there
          /\ race.pieces = Blob(race.computed[race.closed[Len(race.closed)]])

----------------------------------------------------------------------------
(* The claims about the resolver and the constructor, checked under SpecResolve *)

\* What the i-th probe issued got from the server.
Got(i) == session_head(target, req.probes[i])
Succeeded(i) == ~RaisesAtHead(Got(i)) /\ StatusCode(Got(i)) = "200"

\* The probes follow the fixed order and none follows one that returned 200.
ProbesInOrder ==
    ctor.schema = None
    => /\ Len(req.probes) <= Len(ProbeOrder)
       /\ \A i \in 1..Len(req.probes) :
             /\ req.probes[i] = ProbeOrder[i]
             /\ i < Len(req.probes) => ~Succeeded(i)

\* A HEAD request at the scheme, certificate verified, ends in a 200.
Reachable(schema) ==
    LET o == target[[schema |-> schema, verify |-> TRUE]]
    IN  ~RaisesAtHead(o) /\ StatusCode(o) = "200"

Resolved == ctor.pc \in {"init", "done"}

\* C11 as stated: the probes are issued in the order (https, verify on),
\* (https, verify off), (http, verify on), (http, verify off) and none after
\* the first that returns 200; hence for a target reachable on both schemes
\* the resolved scheme is https with verification on.
C11_HttpsFirst ==
    /\ ProbesInOrder
    /\ (Resolved /\ ctor.schema = None /\ Reachable("https") /\ Reachable("http"))
       => (req.schema = "https" /\ req.verify = "True")

\* C11 amended: ... hence for a target reachable on both schemes the only
\* probe is (https, verify on), verification stays on, and the resolved
\* scheme is the scheme of the URL that answered: https unless the request
\* was redirected to an http URL.
C11_HttpsProbedFirst ==
    /\ ProbesInOrder
    /\ (Resolved /\ ctor.schema = None /\ Reachable("https") /\ Reachable("http"))
       => /\ req.probes = <<ProbeOrder[1]>>
          /\ req.verify = "True" /\ req.ssl_valid = "True"
          /\ req.url = FinalUrl(target[[schema |-> "https", verify |-> TRUE]], "https")
          /\ req.schema = (IF target[[schema |-> "https", verify |-> TRUE]] = "200_redirected"
                           THEN "http" ELSE "https")

\* C11's case: a target reachable on both schemes has been resolved to https.
C11_Witness ==
    /\ ctor.pc = "done" /\ ctor.schema = None
    /\ Reachable("https") /\ Reachable("http")
    /\ req.schema = "https" /\ Len(req.probes) = 1

AllProbesFailed ==
    req.probes # <<>> /\ \A i \in 1..Len(req.probes) : ~Succeeded(i)

\* C12 as stated: if every probe fails, by an exception or by a status that
\* is not 200, then after the construction of RequestUrl the URL and the
\* status code are None.
C12_FailureLeavesUnset ==
    (Resolved /\ AllProbesFailed) => (req.url = None /\ req.status_code = None)

\* The probes that got a response.
Answered == {i \in 1..Len(req.probes) : ~RaisesAtHead(Got(i))}
LastAnswered == CHOOSE i \in Answered : \A j \in Answered : j <= i

\* C12 amended: with no schema given, if every probe fails by an exception
\* the URL and the status code are None; if some probe fails by a response
\* that is not 200, they are the URL and the status of the last such
\* response; RequestUrl raises in neither case.
C12_FailureKeepsLastResponse ==
    (Resolved /\ ctor.schema = None /\ AllProbesFailed)
    => /\ Len(req.probes) = Len(ProbeOrder)
       /\ IF Answered = {}
          THEN req.url = None /\ req.status_code = None /\ req.schema = "unset"
          ELSE /\ req.status_code = StatusCode(Got(LastAnswered))
               /\ req.status_code # "200"
               /\ req.url = FinalUrl(Got(LastAnswered), req.probes[LastAnswered].schema)

\* C12's case: all four probes failed, an early one by a response that was
\* not 200 and the last by an exception.
C12_Witness ==
    /\ Resolved /\ ctor.schema = None /\ AllProbesFailed
    /\ Answered # {} /\ LastAnswered < Len(req.probes)
    /\ req.status_code = "404"

\* C13: if the resolution yields no reachable URL (URL None or status not
\* 200), the constructor of a scraping crawl ends without fetching a page and
\* without raising, exists is False and every match list is empty.
C13_UnreachableEndsQuietly ==
    (ctor.pc = "done" /\ ctor.scrape_url /\ (req.url = None \/ req.status_code # "200"))
    => /\ ctor.how = "unreachable"
       /\ ctor.exists = "False"
       /\ stack = <<>> /\ visited = <<>>
       /\ \A k \in Keys : matches[k] = <<>>

\* C14: a crawl constructed with scrape_url = False issues no probe and
\* fetches no page, whatever the other arguments.
C14_NoScrapeNoNetwork ==
    ~ctor.scrape_url => (req.probes = <<>> /\ visited = <<>>)

\* C30: while RequestUrl probes, ssl_valid changes only to false and only
\* when the request raised an SSLError (from true, when the scheme is being
\* resolved), connection_error changes only from false to true and only when
\* the request raised another exception, and a later response resets
\* neither.
C30_StickyFlags ==
    [][ctor.pc = "RequestUrl" =>
         /\ req'.ssl_valid # req.ssl_valid
            => /\ req'.ssl_valid = "False"
               /\ req.in_loop => req.ssl_valid = "True"
               /\ req.pending # <<>>
               /\ session_head(target, req.pending[1]) = "SSLError"
         /\ req'.connection_error # req.connection_error
            => /\ ~req.connection_error /\ req'.connection_error
               /\ req.pending # <<>>
               /\ session_head(target, req.pending[1]) = "ConnectionError"]_vars

\* A resolution that ended with status 200 at http after an SSLError and
\* another exception: both flags report the failures.
C30_Witness ==
    /\ ctor.schema = None /\ ctor.pc = "init"
    /\ req.status_code = "200" /\ req.schema = "http"
    /\ req.connection_error /\ req.ssl_valid = "False"

----------------------------------------------------------------------------
(* The claims about failing fetches, checked under SpecFetch and SpecGet *)

\* C15: when the fetch of a page fails with a transport exception, with the
\* cache or without it, no exception leaves the crawl (so that the frames and
\* links still queued are visited) and the page adds no match: the match
\* lists are those of the pages that gave a soup.
C15_FetchFailureTolerated ==
    cfg.failure \in TransportExceptions
    => /\ raised = ""
       /\ \A k \in Keys : matches[k] = MatchesOfLog(visited, k)

\* C16: get_page_from_url returns None for every exception the GET raises
\* when raise_exceptions is false, and raises that exception if and only if
\* raise_exceptions is true.
C16_FetcherFailureContract ==
    /\ (got.made /\ got.performed /\ got.response \in Exceptions)
       => IF got.raise_exceptions
          THEN got.how = "raised" /\ got.exc = got.response
          ELSE got.how = "returned" /\ got.page = None
    /\ (got.made /\ got.how = "raised")
       => (got.raise_exceptions /\ got.performed /\ got.response \in Exceptions)

\* C25: a cache entry is created only on a miss after a successful
\* computation: a call changes the cache directory only if it performed the
\* GET and the GET gave a response, and a call whose GET failed, the
\* exception swallowed and no page returned, leaves the directory as it was,
\* so that a later call with the same arguments performs the GET again.
C25_FailedFetchNotCached ==
    [][/\ disk' # disk => got'.performed /\ got'.response \in Responses
       /\ (got'.made /\ got'.performed /\ got'.response \in Exceptions)
          => disk' = disk]_vars

\* C16's case: a GET raised an exception of no named class and the call,
\* not asked to raise, returned None.
C16_Witness ==
    /\ got.made /\ got.performed /\ got.response = "RetryError"
    /\ ~got.raise_exceptions /\ got.how = "returned" /\ got.page = None

----------------------------------------------------------------------------
(* The claim about the string measures, checked under SpecMeasure *)

LengthDifference(s, t) ==
    IF Len(s) >= Len(t) THEN Len(s) - Len(t) ELSE Len(t) - Len(s)

\* C17: for all strings s and t, levenshtein_distance(s, t) and
\* optimal_string_alignment_distance(s, t) are at least |len(s) - len(t)|.
C17_DistanceLowerBound ==
    /\ measure.lv_done => measure.lv >= LengthDifference(measure.s, measure.t)
    /\ measure.osa_done => measure.osa >= LengthDifference(measure.s, measure.t)

\* C17's case: both distances of two non-empty strings of different lengths
\* have been computed, and they exceed the difference of the lengths.
C17_Witness ==
    /\ measure.lv_done /\ measure.osa_done
    /\ measure.s # <<>> /\ measure.t # <<>>
    /\ Len(measure.s) # Len(measure.t)
    /\ measure.osa > LengthDifference(measure.s, measure.t)
    /\ measure.lv > LengthDifference(measure.s, measure.t)

====
